---- MODULE Spec2Model ----
(***************************************************************************)
(* Model of telegram_bot.py: the persisted pet document (state.json), the  *)
(* /feed /drink /sleep /remind handlers, the one-shot reminder jobs of the *)
(* APScheduler instance and the 30-minute periodic check.                  *)
(*                                                                         *)
(* Time is a number of seconds since 1970-01-01T00:00:00 UTC.  Under Spec  *)
(* the host time zone is UTC, as the code's comments assume, so that       *)
(* int(target.timestamp()) of a naive datetime is that number itself;      *)
(* SpecZone starts the process on hosts of other zones.  Handlers, jobs    *)
(* and the periodic check are coroutines of one asyncio loop; under Spec   *)
(* a handler is one step, SpecYield splits it at its awaits.               *)
(***************************************************************************)
EXTENDS Integers, Sequences, FiniteSets, TLC

VARIABLES
    now,         \* datetime.utcnow(), in seconds
    running,     \* the process is up (module import and main() succeeded)
    state,       \* the module-level dict `state` (line 97)
    disk,        \* the content of STATE_FILE
    jobs,        \* the one-shot jobs held by `scheduler` (line 65)
    started,     \* the instant at which main() started the scheduler
    attempts,    \* history: the invocations of send_reminder_job, in order
    used,        \* history: restarts and failed writes so far
    last,        \* history: the operation performed by the last step
    loaded,      \* history: the number of records load_state read at start
    inflight,    \* the handler that is suspended at an await, or None
    zone         \* the UTC offset of the host's local time zone, in hours

vars == <<now, running, state, disk, jobs, started, attempts, used, last,
          loaded, inflight, zone>>

---------------------------------------------------------------------------
(* Bounds of the exploration *)

MaxRestarts == 1     \* process restarts explored
MaxSaveFailures == 1 \* failing save_state calls explored
MaxCommands == 2     \* commands that change the document explored
LegacyReminders == 8 \* records of earlier days in the document of SpecLegacy

---------------------------------------------------------------------------
(* Calendar arithmetic of datetime / timedelta *)

SecondsPerMinute == 60
SecondsPerHour == 3600
SecondsPerDay == 86400

\* the fields of a naive datetime (the date is kept as a day number)
DateTime(t) ==
    [day    |-> t \div SecondsPerDay,
     hour   |-> (t % SecondsPerDay) \div SecondsPerHour,
     minute |-> (t % SecondsPerHour) \div SecondsPerMinute,
     second |-> t % SecondsPerMinute]

\* the instant denoted by the fields of a datetime
Instant(dt) ==
    dt.day * SecondsPerDay + dt.hour * SecondsPerHour
        + dt.minute * SecondsPerMinute + dt.second

None == [null |-> TRUE]

\* datetime.isoformat(): the text carries exactly the fields of the datetime
IsoFormat(t) == [iso |-> DateTime(t)]

\* parse_iso (lines 106-109): None for a missing text, else fromisoformat
ParseIso(dt_str) == IF dt_str = None THEN None ELSE [at |-> Instant(dt_str.iso)]

Inf == [inf |-> TRUE]

\* time_since_hours (lines 112-117): float('inf') for a missing timestamp,
\* else total_seconds() / 3600.0, kept as the exact fraction num/den
time_since_hours(dt_str, t) ==
    LET dt == ParseIso(dt_str)
    IN  IF dt = None THEN Inf
        ELSE [num |-> t - dt.at, den |-> SecondsPerHour]

\* AtLeast with `>` in the place of `>=`
AtLeast_Strict(hours, threshold) ==
    IF hours = Inf THEN TRUE ELSE hours.num > threshold * hours.den

\* AtLeast with `==` in the place of `>=`
AtLeast_Exact(hours, threshold) ==
    IF hours = Inf THEN TRUE ELSE hours.num = threshold * hours.den

\* hours >= threshold, for a float that may be inf
AtLeast(hours, threshold) ==
    IF hours = Inf THEN TRUE ELSE hours.num >= threshold * hours.den

FEED_THRESHOLD_HOURS == 6
DRINK_THRESHOLD_HOURS == 4
SLEEP_THRESHOLD_HOURS == 18

---------------------------------------------------------------------------
(* Parsing of the time argument of /remind.  A text is a sequence of      *)
(* one-character strings.                                                  *)

Digits == {"0", "1", "2", "3", "4", "5", "6", "7", "8", "9"}

DigitVal(c) ==
    CASE c = "0" -> 0 [] c = "1" -> 1 [] c = "2" -> 2 [] c = "3" -> 3
      [] c = "4" -> 4 [] c = "5" -> 5 [] c = "6" -> 6 [] c = "7" -> 7
      [] c = "8" -> 8 [] c = "9" -> 9

ValueError == [ok |-> FALSE]

RECURSIVE DecimalValue(_)
DecimalValue(tok) ==
    IF tok = <<>> THEN 0
    ELSE DecimalValue(SubSeq(tok, 1, Len(tok) - 1)) * 10 + DigitVal(tok[Len(tok)])

\* int(text) of line 203: an optional sign and at least one decimal digit
int(tok) ==
    LET signed == tok # <<>> /\ tok[1] \in {"+", "-"}
        body == IF signed THEN Tail(tok) ELSE tok
    IN  IF body # <<>> /\ \A i \in 1..Len(body) : body[i] \in Digits
        THEN [ok |-> TRUE,
              val |-> IF signed /\ tok[1] = "-" THEN 0 - DecimalValue(body)
                      ELSE DecimalValue(body)]
        ELSE ValueError

\* text.split(sep)
RECURSIVE Split(_, _)
Split(text, sep) ==
    IF \A i \in 1..Len(text) : text[i] # sep THEN <<text>>
    ELSE LET i == CHOOSE k \in 1..Len(text) :
                      text[k] = sep /\ \A m \in 1..(k - 1) : text[m] # sep
         IN  <<SubSeq(text, 1, i - 1)>> \o Split(SubSeq(text, i + 1, Len(text)), sep)

\* ValidHour that lets the hour 24 through
ValidHour_Lax(hh) == hh \in 0..24

\* datetime.replace(hour=hh, minute=mm, ...) accepts these fields only
ValidHour(hh) == hh \in 0..23
ValidMinute(mm) == mm \in 0..59

\* lines 203 and 206: `hh, mm = map(int, time_part.split(':'))` needs exactly
\* two parts, both integers, that datetime.replace accepts
ParseTime(time_part) ==
    LET parts == Split(time_part, ":")
    IN  IF Len(parts) # 2 THEN ValueError
        ELSE LET hh == int(parts[1])
                 mm == int(parts[2])
             IN  IF hh.ok /\ mm.ok /\ ValidHour(hh.val) /\ ValidMinute(mm.val)
                 THEN [ok |-> TRUE, hh |-> hh.val, mm |-> mm.val]
                 ELSE ValueError

\* Target with `<` in the place of `<=`
Target_Strict(t, hh, mm) ==
    LET target == Instant([DateTime(t) EXCEPT
                              !.hour = hh, !.minute = mm, !.second = 0])
    IN  IF target < t THEN target + SecondsPerDay ELSE target

\* lines 204-208: today's hh:mm:00, moved one day ahead when it is not
\* after `t`
Target(t, hh, mm) ==
    LET target == Instant([DateTime(t) EXCEPT
                              !.hour = hh, !.minute = mm, !.second = 0])
    IN  IF target <= t THEN target + SecondsPerDay ELSE target

\* a naive datetime read as local time of the host, which is what
\* datetime.timestamp() and DateTrigger(run_date=...) do: the instant at
\* which the host's clock shows it
Localized(t) == Instant(DateTime(t)) - zone * SecondsPerHour

\* int(target.timestamp())
Timestamp(t) == Localized(t)

\* JobId without the sequence number
JobId_NoSeq(reminders, target) == <<"remind", 1, Timestamp(target)>>

\* line 216: f"remind_{len(reminders) + 1}_{int(target.timestamp())}"
JobId(reminders, target) == <<"remind", Len(reminders) + 1, Timestamp(target)>>

\* line 213: ' '.join(args[1:]), kept as the list of joined words
Content(args) == SubSeq(args, 2, Len(args))

---------------------------------------------------------------------------
(* The document and its file *)

\* lines 79-85: the document of a first run
DefaultState ==
    [last_feed |-> None, last_drink |-> None, last_sleep |-> None,
     users |-> <<>>, reminders |-> <<>>]

\* the JSON type of a member of the document, by its key: reminders is a
\* list, users a mapping, every other member a str or None
JsonType(key) ==
    CASE key = "reminders" -> "array"
      [] key = "users" -> "object"
      [] OTHER -> "string or null"

JsonNull == [literal |-> "null"]

\* json.dump of a member: None is written as null, a str as a string, a
\* list as an array of its elements in their order, a dict as an object
ToJson(key, value) ==
    CASE JsonType(key) = "array" -> [array |-> value]
      [] JsonType(key) = "object" -> [object |-> value]
      [] OTHER -> IF value = None THEN JsonNull ELSE [string |-> value]

\* json.load of a member
FromJson(key, text) ==
    CASE JsonType(key) = "array" -> text.array
      [] JsonType(key) = "object" -> text.object
      [] OTHER -> IF text = JsonNull THEN None ELSE text.string

\* json.dump of line 94: the file holds the text of the whole dict, one
\* member for every key it has
Dump(doc) == [json |-> [key \in DOMAIN doc |-> ToJson(key, doc[key])]]

\* a file that open(..., 'w') emptied and whose write did not complete
Truncated == [truncated |-> TRUE]

\* json.load of line 89 accepts a complete text only
Readable(file) == file # Truncated

\* Load that keeps the members of the default document only
Load_KnownKeys(file) ==
    [key \in DOMAIN DefaultState |-> FromJson(key, file.json[key])]

\* line 89: the dict that json.load builds, with every member of the text
Load(file) == [key \in DOMAIN file.json |-> FromJson(key, file.json[key])]

\* outcomes of the open and the write of save_state (lines 93-94)
SaveOutcomes == {"ok", "open_error", "write_error"}

\* the file after save_state(doc) with outcome io
Saved(file, doc, io) ==
    CASE io = "ok" -> Dump(doc)
      [] io = "open_error" -> file
      [] io = "write_error" -> Truncated

\* the failed writes counted by a save with outcome io
Failures(io) == IF io = "ok" THEN 0 ELSE 1

---------------------------------------------------------------------------
(* Inputs *)

\* the UTC offset, in hours, of a host whose local time is UTC
UTC == 0

\* the instant of the first start, 08:59:59 on day 0
FirstInstant == 8 * SecondsPerHour + 59 * SecondsPerMinute + 59

\* instants of day 0 at which commands arrive and the process is
\* restarted: 08:59:59, 09:00:00 and 15:00:00
SampleInstants == { FirstInstant, 9 * SecondsPerHour, 15 * SecondsPerHour }

T0900 == <<"0", "9", ":", "0", "0">>
T1500 == <<"1", "5", ":", "0", "0">>

\* accepted time arguments, with the hour and minute they denote
GoodTimes ==
    { [text |-> T0900, hour |-> 9, minute |-> 0],
      [text |-> T1500, hour |-> 15, minute |-> 0] }

\* time arguments that are not two in-range integers separated by ':'
BadTimes ==
    { <<"9">>, <<"0", "9", ":">>, <<"2", "4", ":", "0", "0">>,
      <<"0", "9", ":", "6", "0">>, <<"-", "1", ":", "0", "0">> }

\* /remind requests: the argument list and the chat it comes from
Requests ==
    { [args |-> <<T0900>>, chat_id |-> 101],
      [args |-> <<T0900, "pill">>, chat_id |-> 101],
      [args |-> <<T1500, "vet", "visit">>, chat_id |-> 102] }
    \cup { [args |-> <<b, "pill">>, chat_id |-> 102] : b \in BadTimes }

---------------------------------------------------------------------------
(* The scheduler *)

\* APScheduler's default misfire_grace_time, in seconds: a run that is
\* later than this is skipped
MisfireGrace == 1

\* line 375: schedule_periodic_checks runs one second after start-up
StartupDelay == 1

\* line 341: 'interval', minutes=30
CheckIntervalMinutes == 30
CheckInterval == CheckIntervalMinutes * SecondsPerMinute

\* line 217: the job of a reminder
Job(job_id, target, chat_id, content) ==
    [id |-> job_id, run_date |-> target, chat_id |-> chat_id, content |-> content]

\* lines 220-225: the record of a reminder
Record(job_id, target, chat_id, content) ==
    [job_id |-> job_id, run_at |-> IsoFormat(target),
     chat_id |-> chat_id, content |-> content]

\* Remaining for a job that stays in the scheduler after its run
Remaining_Kept(js, j) == js

\* a job with a DateTrigger has no next run time after its run date and
\* is removed from the scheduler when it has run
Remaining(js, j) == js \ {j}

\* the instant at which the trigger of a job fires
FireInstant(j) == Localized(j.run_date)

\* a job can still run at t when t is not later than its run date by more
\* than the grace time; the scheduler drops a job that it finds later
Runnable(js, t) == {j \in js : t - FireInstant(j) <= MisfireGrace}

\* the decimal text of a natural number
RECURSIVE Decimal(_)
Decimal(n) ==
    LET digit(d) == CHOOSE c \in Digits : DigitVal(c) = d
    IN  IF n < 10 THEN <<digit(n)>>
        ELSE Decimal(n \div 10) \o <<digit(n % 10)>>

\* the text of a job id after its prefix "remind_"
IdText(id) == Decimal(id[2]) \o <<"_">> \o Decimal(id[3])

\* ord() of the characters of such a text
Ord(c) == IF c = "_" THEN 95 ELSE 48 + DigitVal(c)

\* a < b for two str
RECURSIVE StrLess(_, _)
StrLess(a, b) ==
    IF b = <<>> THEN FALSE
    ELSE IF a = <<>> THEN TRUE
    ELSE IF Ord(a[1]) # Ord(b[1]) THEN Ord(a[1]) < Ord(b[1])
    ELSE StrLess(Tail(a), Tail(b))

\* the order in which the scheduler's job store hands out the due jobs:
\* by run time, and for equal run times by the text of the job id
Before(j, k) ==
    \/ FireInstant(j) < FireInstant(k)
    \/ FireInstant(j) = FireInstant(k) /\ StrLess(IdText(j.id), IdText(k.id))

\* the run times of the interval job of a scheduler started at `start`:
\* every 30 minutes after its registration
CheckTime(start, t) ==
    /\ t > start + StartupDelay
    /\ (t - (start + StartupDelay)) % CheckInterval = 0

\* what the last step was and what it replied or logged: the handler, its
\* outcome, and the kinds a check reported
Step(op, result, due) == [op |-> op, result |-> result, due |-> due]

\* a command arrives: at one of the sample instants, and while fewer than
\* MaxCommands commands have changed the document
Arrives == now \in SampleInstants /\ used.commands < MaxCommands

Result(io) == IF io = "ok" THEN "ok" ELSE "storage_error"

---------------------------------------------------------------------------
(* Start-up *)

\* ArmedAtStart that arms a job again for every record of the document
ArmedAtStart_Restored(doc) ==
    { Job(doc.reminders[i].job_id, Instant(doc.reminders[i].run_at.iso),
          doc.reminders[i].chat_id, doc.reminders[i].content) :
        i \in 1..Len(doc.reminders) }

\* the jobs of the scheduler when main() has started it: the scheduler is
\* a new one (line 65) and nothing reads state['reminders'] (lines 346-378)
ArmedAtStart(doc) == {}

\* the state when main() has started the scheduler at FirstInstant, on a
\* host `offset` hours ahead of UTC whose STATE_FILE holds `doc`
Start(doc, offset) ==
    /\ now = FirstInstant
    /\ running = TRUE
    /\ state = doc
    /\ disk = Dump(doc)
    /\ jobs = ArmedAtStart(doc)
    /\ started = FirstInstant
    /\ attempts = <<>>
    /\ used = [restarts |-> 0, save_failures |-> 0, commands |-> 0]
    /\ last = Step("main", "ok", {})
    /\ loaded = Len(doc.reminders)
    /\ inflight = None
    /\ zone = offset

\* a document that the program wrote on earlier days and a later version
\* of it extended: LegacyReminders records of reminders for 07:00 of day 0,
\* a feed of 07:00, one user, and a member the program does not know
LegacyState ==
    LET wake == 7 * SecondsPerHour
    IN  [last_feed |-> IsoFormat(wake), last_drink |-> None,
         last_sleep |-> None,
         users |-> [u101 |-> [name |-> "Ann"]],
         reminders |->
            [i \in 1..LegacyReminders |->
                Record(<<"remind", i, wake>>, wake, 101, <<"wake">>)],
         default_chat |-> [text |-> "101"]]

\* a later run on a host in UTC, on that document
InitLegacy == Start(LegacyState, UTC)

\* first run on a host in UTC: no STATE_FILE, load_state writes the default
\* document (lines 78-87); main() starts the scheduler and registers the
\* check
Init == Start(DefaultState, UTC)

\* the process stops and is started again: the scheduler is a new, empty
\* one (line 65), `state` is what load_state reads (line 97)
Restart ==
    /\ now \in SampleInstants
    /\ used.restarts < MaxRestarts
    /\ used' = [used EXCEPT !.restarts = @ + 1]
    /\ IF Readable(disk)
       THEN /\ running' = TRUE
            /\ state' = Load(disk)
            /\ jobs' = ArmedAtStart(state')
            /\ started' = now
            /\ loaded' = Len(state'.reminders)
            /\ last' = Step("main", "ok", {})
       ELSE /\ running' = FALSE
            /\ state' = None
            /\ jobs' = {}
            /\ started' = started
            /\ loaded' = loaded
            /\ last' = Step("main", "decode_error", {})
    /\ UNCHANGED <<now, disk, attempts, inflight, zone>>

\* the instants at which something can happen: a command arrives or a
\* job has its run date
Instants == SampleInstants \cup {FireInstant(j) : j \in jobs}

\* time passes, up to the next such instant; a job that did not run in
\* time is found missed
Advance(t) ==
    /\ t > now
    /\ \A u \in Instants : u > now => t <= u
    /\ now' = t
    /\ jobs' = Runnable(jobs, t)
    /\ last' = Step("advance", "ok", {})
    /\ UNCHANGED <<running, state, disk, started, attempts, used,
                   loaded, inflight, zone>>

---------------------------------------------------------------------------
(* Handlers *)

\* Touch that stamps all three care fields
Touch_All(doc, field, t) ==
    [doc EXCEPT !.last_feed = IsoFormat(t), !.last_drink = IsoFormat(t),
                !.last_sleep = IsoFormat(t)]

\* lines 157, 163, 169: state['last_...'] = iso_now()
Touch(doc, field, t) == [doc EXCEPT ![field] = IsoFormat(t)]

\* lines 156-171: state['last_...'] = iso_now(); save_state(state)
RecordAndSave(op, field, io) ==
    /\ running
    /\ Arrives
    /\ used.save_failures + Failures(io) <= MaxSaveFailures
    /\ state' = Touch(state, field, now)
    /\ disk' = Saved(disk, state', io)
    /\ used' = [used EXCEPT !.save_failures = @ + Failures(io),
                            !.commands = @ + 1]
    /\ last' = Step(op, Result(io), {})
    /\ UNCHANGED <<now, running, jobs, started, attempts,
                   loaded, inflight, zone>>

feed_command(io) == RecordAndSave("feed_command", "last_feed", io)

drink_command(io) == RecordAndSave("drink_command", "last_drink", io)

sleep_command(io) == RecordAndSave("sleep_command", "last_sleep", io)

\* a /remind that replies with an error text and returns, or whose
\* add_job raises
Refused(args, result) ==
    /\ last' = Step("remind_command", result, {})
    /\ UNCHANGED <<now, running, state, disk, jobs, started, attempts, used>>

\* Appended that puts the new record first
Appended_Front(reminders, rec) == <<rec>> \o reminders

\* line 220: state.setdefault('reminders', []).append({...})
Appended(reminders, rec) == Append(reminders, rec)

\* lines 195-230
remind_command(args, chat_id, io) ==
    /\ running
    /\ Arrives
    /\ UNCHANGED <<loaded, inflight, zone>>
    /\ IF Len(args) < 2
       THEN io = "ok" /\ Refused(args, "usage")
       ELSE LET time == ParseTime(args[1])
            IN  IF ~time.ok
                THEN io = "ok" /\ Refused(args, "format_error")
                ELSE LET target == Target(now, time.hh, time.mm)
                         content == Content(args)
                         job_id == JobId(state.reminders, target)
                     IN  IF \E j \in jobs : j.id = job_id
                         THEN io = "ok" /\ Refused(args, "conflicting_id")
                         ELSE /\ used.save_failures + Failures(io) <= MaxSaveFailures
                              /\ jobs' = jobs \cup {Job(job_id, target, chat_id, content)}
                              /\ state' = [state EXCEPT !.reminders =
                                    Appended(@, Record(job_id, target, chat_id, content))]
                              /\ disk' = Saved(disk, state', io)
                              /\ used' = [used EXCEPT !.save_failures = @ + Failures(io),
                                                      !.commands = @ + 1]
                              /\ last' = Step("remind_command", Result(io), {})
                              /\ UNCHANGED <<now, running, started, attempts>>

\* the job ids of the records of a document
ReminderIds(doc) == {doc.reminders[i].job_id : i \in 1..Len(doc.reminders)}

\* a command for which main() registers no handler (lines 354-367), such
\* as /cancel <job id>: the update matches no handler and is dropped
unhandled_command(command, args) ==
    /\ running
    /\ Arrives
    /\ last' = Step(command, "unhandled", {})
    /\ UNCHANGED <<now, running, state, disk, jobs, started, attempts, used,
                   loaded, inflight, zone>>

\* /cancel <job id> for the id of a record of the document
cancel_request ==
    /\ running
    /\ \E id \in ReminderIds(state) : unhandled_command("cancel", <<id>>)

---------------------------------------------------------------------------
(* Jobs *)

\* AfterCallback for a callback whose exception ends the scheduler
AfterCallback_Uncaught(alive, raised) == alive /\ ~raised

\* lines 237-240 and 330-338: a callback catches and logs what its body
\* raises and returns, so the scheduler goes on as it was
AfterCallback(alive, raised) == alive

\* lines 233-240, run by the scheduler at the job's run date, the due jobs
\* in the order of the job store
send_reminder_job(j, delivered) ==
    /\ running
    /\ j \in Runnable(jobs, now)
    /\ now >= FireInstant(j)
    /\ \A k \in Runnable(jobs, now) : now >= FireInstant(k) => ~Before(k, j)
    /\ jobs' = Remaining(jobs, j)
    /\ attempts' = Append(attempts,
            [job_id |-> j.id, chat_id |-> j.chat_id, content |-> j.content])
    /\ running' = AfterCallback(running, ~delivered)
    /\ last' = Step("send_reminder_job",
                    IF delivered THEN "sent" ELSE "send_error", {})
    /\ UNCHANGED <<now, state, disk, started, used, loaded, inflight, zone>>

\* line 332: the kinds that check_and_notify reports
DueKinds(doc, t) ==
    IF AtLeast(time_since_hours(doc.last_feed, t), FEED_THRESHOLD_HOURS)
    THEN {"feed"} ELSE {}

\* lines 329-341, run by the scheduler every 30 minutes
check_and_notify ==
    /\ running
    /\ CheckTime(started, now)
    /\ last' = Step("check_and_notify", "ok", DueKinds(state, now))
    /\ UNCHANGED <<now, running, state, disk, jobs, started, attempts, used,
                   loaded, inflight, zone>>

---------------------------------------------------------------------------

\* the steps of one process run
Run ==
    \/ \E t \in Instants : Advance(t)
    \/ \E io \in SaveOutcomes : feed_command(io)
    \/ \E io \in SaveOutcomes : drink_command(io)
    \/ \E io \in SaveOutcomes : sleep_command(io)
    \/ \E r \in Requests, io \in SaveOutcomes :
            remind_command(r.args, r.chat_id, io)
    \/ cancel_request
    \/ \E j \in jobs, delivered \in BOOLEAN : send_reminder_job(j, delivered)
    \/ check_and_notify

Next == Restart \/ Run

Spec == Init /\ [][Next]_vars

\* the UTC offsets, in hours, of the hosts the process is started on
HostZones == {0 - 5, UTC, 8}

\* first run on a host of one of these zones
InitZone == \E offset \in HostZones : Start(DefaultState, offset)

SpecZone == InitZone /\ [][Next]_vars

\* one process run, without a restart
SpecRun == Init /\ [][Run]_vars

SpecLegacy == InitLegacy /\ [][Next]_vars

---------------------------------------------------------------------------
(* The handlers split at their awaits.  A coroutine runs without          *)
(* interruption from one await to the next; while a handler is suspended   *)
(* the loop runs the jobs of the scheduler, and the Application, which     *)
(* processes one update at a time, starts no other handler.                *)

\* Awaits for a handler that also awaits between its change of `state`
\* and its save_state
Awaits_BeforeSave(point) == point \in {"mutated", "saved"}

\* lines 157-159, 163-165, 169-171, 216-229: the only await of a handler
\* that changes `state` is the reply_text after its save_state
Awaits(point) == point = "saved"

\* a handler suspended at a point, with the outcome its save has or will
\* have
Suspended(op, point, io) == [op |-> op, point |-> point, io |-> io]

\* where a handler is after it has run from its start to its first await:
\* a save_state that raises ends it
FirstAwait(op, io) ==
    IF Awaits("mutated") THEN Suspended(op, "mutated", io)
    ELSE IF io = "ok" THEN Suspended(op, "saved", io)
    ELSE None

\* the file when the handler has reached that await
FileAtFirstAwait(file, doc, io) ==
    IF Awaits("mutated") THEN file ELSE Saved(file, doc, io)

\* lines 156-171, up to the first await
begin_care(op, field, io) ==
    /\ running
    /\ Arrives
    /\ inflight = None
    /\ used.save_failures + Failures(io) <= MaxSaveFailures
    /\ state' = Touch(state, field, now)
    /\ disk' = FileAtFirstAwait(disk, state', io)
    /\ inflight' = FirstAwait(op, io)
    /\ used' = [used EXCEPT !.save_failures = @ + Failures(io),
                            !.commands = @ + 1]
    /\ last' = Step(op, "started", {})
    /\ UNCHANGED <<now, running, jobs, started, attempts, loaded, zone>>

\* lines 195-230 for an accepted request, up to the first await
begin_remind(args, chat_id, io) ==
    /\ running
    /\ Arrives
    /\ inflight = None
    /\ Len(args) >= 2
    /\ ParseTime(args[1]).ok
    /\ LET time == ParseTime(args[1])
           target == Target(now, time.hh, time.mm)
           content == Content(args)
           job_id == JobId(state.reminders, target)
       IN  /\ \A j \in jobs : j.id # job_id
           /\ used.save_failures + Failures(io) <= MaxSaveFailures
           /\ jobs' = jobs \cup {Job(job_id, target, chat_id, content)}
           /\ state' = [state EXCEPT !.reminders =
                    Appended(@, Record(job_id, target, chat_id, content))]
           /\ disk' = FileAtFirstAwait(disk, state', io)
           /\ inflight' = FirstAwait("remind_command", io)
           /\ used' = [used EXCEPT !.save_failures = @ + Failures(io),
                                   !.commands = @ + 1]
           /\ last' = Step("remind_command", "started", {})
           /\ UNCHANGED <<now, running, started, attempts, loaded, zone>>

\* the suspended handler goes on to its next await or to its end
resume ==
    /\ running
    /\ inflight # None
    /\ IF inflight.point = "mutated"
       THEN /\ disk' = Saved(disk, state, inflight.io)
            /\ inflight' = IF inflight.io = "ok"
                           THEN [inflight EXCEPT !.point = "saved"] ELSE None
       ELSE /\ disk' = disk
            /\ inflight' = None
    /\ last' = Step(inflight.op, "resumed", {})
    /\ UNCHANGED <<now, running, state, jobs, started, attempts, used,
                   loaded, zone>>

Yield ==
    \/ \E t \in Instants : Advance(t)
    \/ \E c \in {"feed", "drink", "sleep"}, io \in SaveOutcomes :
            begin_care(c \o "_command", "last_" \o c, io)
    \/ \E r \in Requests, io \in SaveOutcomes :
            begin_remind(r.args, r.chat_id, io)
    \/ resume
    \/ \E j \in jobs, delivered \in BOOLEAN : send_reminder_job(j, delivered)
    \/ check_and_notify

SpecYield == Init /\ [][Yield]_vars

---------------------------------------------------------------------------
(* Properties *)

\* the persisted document, when the file can be read
Persisted == Load(disk)

\* the record appended last
Newest(doc) == doc.reminders[Len(doc.reminders)]

\* the instant a record is scheduled at
ScheduledAt(rec) == Instant(rec.run_at.iso)

\* the step is an accepted /remind: one more record
Accepted == Len(state'.reminders) = Len(state.reminders) + 1

\* C1: every reminder causes at most one invocation of send_reminder_job:
\* no job id is attempted twice, a job that was attempted is no longer in
\* the scheduler, also when its delivery failed
C1_AtMostOneAttempt ==
    /\ \A i, k \in 1..Len(attempts) :
            attempts[i].job_id = attempts[k].job_id => i = k
    /\ \A i \in 1..Len(attempts) : \A j \in jobs : j.id # attempts[i].job_id

\* two reminders have had their attempt, the last one failed, and time went on
C1_Witness ==
    /\ Len(attempts) = 2
    /\ jobs = {}
    /\ \E i \in 1..Len(state.reminders) : ScheduledAt(state.reminders[i]) < now

\* C2: no two records of state['reminders'], in memory or in the file, have
\* the same job_id
Unique(doc) ==
    \A i, k \in 1..Len(doc.reminders) :
        doc.reminders[i].job_id = doc.reminders[k].job_id => i = k

C2_UniqueJobIds ==
    /\ running => Unique(state)
    /\ Readable(disk) => Unique(Persisted)

\* two records for the same target time, created in two process runs
C2_Witness ==
    /\ running
    /\ used.restarts = 1
    /\ Len(state.reminders) = 2
    /\ state.reminders[1].run_at = state.reminders[2].run_at
    /\ jobs # {}

\* the earliest instant strictly after t whose time of day is hour:minute:00
Earliest(t, hour, minute) ==
    LET tod == hour * SecondsPerHour + minute * SecondsPerMinute
        today == (t \div SecondsPerDay) * SecondsPerDay
        candidates == {today + tod, today + SecondsPerDay + tod}
    IN  CHOOSE u \in candidates :
            u > t /\ \A v \in candidates : v > t => u <= v

\* C3: an accepted /remind for hour:minute at `now` schedules the record and
\* arms the job at the earliest instant strictly after now with that time of
\* day: today's if that is after now, else exactly one day later; it is in the
\* future and at most 24h ahead
C3_EarliestInstant ==
    [][\A r \in Requests, io \in SaveOutcomes, g \in GoodTimes :
          (/\ last'.op = "remind_command"
           /\ Len(r.args) >= 2
           /\ r.args[1] = g.text
           /\ Accepted
           /\ remind_command(r.args, r.chat_id, io))
          => LET at == ScheduledAt(Newest(state'))
                 today == (now \div SecondsPerDay) * SecondsPerDay
                           + g.hour * SecondsPerHour + g.minute * SecondsPerMinute
             IN  /\ at = Earliest(now, g.hour, g.minute)
                 /\ at = IF today > now THEN today ELSE today + SecondsPerDay
                 /\ at > now /\ at - now <= SecondsPerDay
                 /\ \E j \in jobs' \ jobs : j.run_date = at]_vars

\* a /remind for the current hour:minute:00 was scheduled one day ahead
C3_Witness ==
    /\ running
    /\ last.op = "remind_command" /\ last.result = "ok"
    /\ ScheduledAt(Newest(state)) = now + SecondsPerDay

\* the rejected requests: fewer than two arguments, or a bad time argument
Rejected(args) == Len(args) < 2 \/ args[1] \in BadTimes

\* C4: a rejected /remind leaves the document in memory, the file and the
\* armed jobs unchanged (no step that changes one of them is the step of a
\* rejected request)
C4_RejectedChangesNothing ==
    [][(last'.op = "remind_command" /\ ~UNCHANGED <<state, disk, jobs>>)
          => \A r \in Requests, io \in SaveOutcomes :
                Rejected(r.args) => ~remind_command(r.args, r.chat_id, io)]_vars

\* a /remind was rejected for its time argument while a reminder is armed
C4_Witness ==
    /\ last.op = "remind_command" /\ last.result = "format_error"
    /\ jobs # {}

\* C5: every armed job has exactly one persisted record with its id, whose
\* run_at is the job's run date, and no two armed jobs share an id
C5_JobMatchesPersistedRecord ==
    running =>
        /\ \A j \in jobs :
              /\ Readable(disk)
              /\ Cardinality({i \in 1..Len(Persisted.reminders) :
                                Persisted.reminders[i].job_id = j.id}) = 1
              /\ \A i \in 1..Len(Persisted.reminders) :
                    Persisted.reminders[i].job_id = j.id
                        => ScheduledAt(Persisted.reminders[i]) = j.run_date
        /\ \A j1, j2 \in jobs : j1.id = j2.id => j1 = j2

\* C6: between handlers the file holds the document that is in memory
C6_FileEqualsMemory == running => disk = Dump(state)

\* C7: a handler whose save_state fails leaves the document in memory as it
\* was before the handler began
C7_FailedSaveKeepsMemory ==
    [][last'.result = "storage_error" => state' = state]_vars

\* the reference decision: due when the action never occurred, else when the
\* elapsed time has reached the threshold
IsDue(lastActionAt, thresholdHours, t) ==
    \/ lastActionAt = None
    \/ t - lastActionAt.at >= thresholdHours * SecondsPerHour

\* C8: the periodic check reports feed exactly when the reference decision
\* says it is due, an elapsed time equal to the threshold included
C8_DueDecision ==
    last.op = "check_and_notify" =>
        ("feed" \in last.due
            <=> IsDue(ParseIso(state.last_feed), FEED_THRESHOLD_HOURS, now))

\* a check ran exactly 6 hours after the last feed and reported it
C8_Witness ==
    /\ last.op = "check_and_notify"
    /\ state.last_feed # None
    /\ now - ParseIso(state.last_feed).at = FEED_THRESHOLD_HOURS * SecondsPerHour
    /\ "feed" \in last.due

\* the tracked kinds with their thresholds
Kinds ==
    { [name |-> "feed", field |-> "last_feed", hours |-> FEED_THRESHOLD_HOURS],
      [name |-> "drink", field |-> "last_drink", hours |-> DRINK_THRESHOLD_HOURS],
      [name |-> "sleep", field |-> "last_sleep", hours |-> SLEEP_THRESHOLD_HOURS] }

\* C9: a periodic check reports every kind that is due and no other kind
C9_EveryDueKindReported ==
    last.op = "check_and_notify" =>
        \A k \in Kinds :
            k.name \in last.due <=> IsDue(ParseIso(state[k.field]), k.hours, now)

\* C10: the run of a reminder's job changes the persisted record of that
\* reminder, so that a fired record differs from a pending one
C10_FirePersistsStatus ==
    [][(/\ last'.op = "send_reminder_job"
        /\ Len(attempts') = Len(attempts) + 1
        /\ Readable(disk) /\ Readable(disk'))
       => LET id == attempts'[Len(attempts')].job_id
              before == Load(disk).reminders
              after == Load(disk').reminders
          IN  \A i \in 1..Len(after) :
                  (after[i].job_id = id /\ i <= Len(before))
                      => after[i] # before[i]]_vars

\* the job ids that send_reminder_job has been invoked for
Fired == {attempts[i].job_id : i \in 1..Len(attempts)}

\* C11: a cancel of a reminder that has fired fails with an invalid-state
\* error and its record stays as it is; a cancel of a pending reminder
\* disarms its job, so that it cannot fire afterwards
C11_CancelDisarmsOrFails ==
    [][(running /\ last'.op = "cancel")
          => \A id \in ReminderIds(state) :
                unhandled_command("cancel", <<id>>)
                    => /\ id \in Fired
                          => last'.result = "invalid_state" /\ state' = state
                       /\ (id \notin Fired /\ \E j \in jobs : j.id = id)
                          => \A j \in jobs' : j.id # id]_vars

\* C12: the invocations of send_reminder_job are in nondecreasing order of
\* the scheduled instant that the job id carries, and two reminders with
\* the same scheduled instant are never invoked in the reverse of their
\* creation order, which is the order of their sequence numbers
C12_FireOrder ==
    \A i, k \in 1..Len(attempts) :
        i < k =>
            LET first == attempts[i].job_id
                second == attempts[k].job_id
            IN  /\ first[3] <= second[3]
                /\ first[3] = second[3] => first[2] < second[2]

\* C13: a send_reminder_job whose send raises is logged and leaves the
\* scheduler as it was: the process runs on, every other armed job stays
\* armed and able to run at its time, and the periodic check keeps its
\* schedule
C13_FailureIsContained ==
    [][(/\ last'.op = "send_reminder_job"
        /\ last'.result = "send_error"
        /\ Len(attempts') = Len(attempts) + 1)
       => LET id == attempts'[Len(attempts')].job_id
          IN  /\ running'
              /\ started' = started
              /\ \A k \in jobs : k.id # id => k \in jobs'
              /\ \A k \in jobs' : k \in Runnable(jobs', now')
              /\ \A t \in Instants : CheckTime(started, t) <=> CheckTime(started', t)]_vars

\* a send failed while another reminder is armed for a later time
C13_Witness ==
    /\ running
    /\ last.op = "send_reminder_job" /\ last.result = "send_error"
    /\ \E j \in jobs : FireInstant(j) > now

CareCommands ==
    { [op |-> "feed_command", field |-> "last_feed"],
      [op |-> "drink_command", field |-> "last_drink"],
      [op |-> "sleep_command", field |-> "last_sleep"] }

\* C15: /feed, /drink or /sleep sets its own timestamp to now and leaves
\* every other member of the document and the armed jobs unchanged; when
\* its save succeeds the file holds the whole new document
C15_RecordTouchesOneField ==
    [][\A c \in CareCommands :
          (running /\ last'.op = c.op)
          => /\ state'[c.field] = IsoFormat(now)
             /\ DOMAIN state' = DOMAIN state
             /\ \A f \in DOMAIN state \ {c.field} : state'[f] = state[f]
             /\ jobs' = jobs
             /\ last'.result = "ok" => disk' = Dump(state')]_vars

\* a /drink was recorded while a feed time, records and a job exist
C15_Witness ==
    /\ running
    /\ last.op = "drink_command" /\ last.result = "ok"
    /\ state.last_drink = IsoFormat(now)
    /\ state.last_feed # None
    /\ Len(state.reminders) > LegacyReminders
    /\ jobs # {}

\* C16: within a process run the list of records only grows at its end:
\* every step keeps the records it had, in their order, and adds at most
\* one; an accepted /remind adds exactly one, no other step adds any
C16_AppendOnly ==
    [][(running /\ running' /\ last'.op # "main")
          => LET old == state.reminders
                 new == state'.reminders
             IN  /\ Len(old) <= Len(new) /\ Len(new) <= Len(old) + 1
                 /\ SubSeq(new, 1, Len(old)) = old
                 /\ (last'.op = "remind_command"
                        /\ last'.result \in {"ok", "storage_error"})
                    <=> Len(new) = Len(old) + 1]_vars

\* a second record was appended after the records of earlier days
C16_Witness ==
    /\ running
    /\ last.op = "remind_command" /\ last.result = "ok"
    /\ Len(state.reminders) = LegacyReminders + 2
    /\ \A i \in 1..LegacyReminders : state.reminders[i] = LegacyState.reminders[i]

\* the job ids of the records that load_state read at the start of the
\* current process run
LoadedIds == {state.reminders[i].job_id : i \in 1..loaded}

\* C17: a restart keeps the records of the file in the document and arms
\* no job; no record that was loaded at start has a job in the new run, and
\* none of them is fired in it
C17_RestartArmsNothing ==
    [][/\ (last'.op = "main" /\ running')
          => /\ jobs' = {}
             /\ state'.reminders = Load(disk).reminders
             /\ loaded' = Len(state'.reminders)
       /\ running' => \A j \in jobs' : j.id \notin LoadedIds'
       /\ (running /\ last'.op = "send_reminder_job"
                /\ Len(attempts') = Len(attempts) + 1)
          => attempts'[Len(attempts')].job_id \notin LoadedIds]_vars

\* a reminder that was pending at the restart is past its time in the new
\* run and was never fired
C17_Witness ==
    /\ running
    /\ used.restarts = 1
    /\ loaded >= 1
    /\ started < ScheduledAt(state.reminders[1])
    /\ ScheduledAt(state.reminders[1]) < now
    /\ attempts = <<>>

\* the values a last-action timestamp takes
Timestamps == {None} \cup {IsoFormat(t) : t \in SampleInstants}

\* the last step was a periodic check
Ticked == running /\ last.op = "check_and_notify"

\* C19: a periodic check changes neither the document in memory, nor the
\* file, nor the armed jobs; and once a check has reported a kind, every
\* later check that finds the same last-action timestamp of that kind
\* reports it again
C19_CheckReadOnlyMemoryless ==
    /\ [][last'.op = "check_and_notify" => UNCHANGED <<state, disk, jobs>>]_vars
    /\ \A k \in Kinds, at \in Timestamps :
          []((Ticked /\ state[k.field] = at /\ k.name \in last.due)
                => []((Ticked /\ state[k.field] = at) => k.name \in last.due))

\* a check of day 1 reports the feed that the check of 15:00:00 of day 0
\* found overdue
C19_Witness ==
    /\ Ticked
    /\ started = FirstInstant
    /\ now > SecondsPerDay
    /\ state.last_feed = IsoFormat(9 * SecondsPerHour)
    /\ "feed" \in last.due
    /\ jobs = {}

\* C20: send_reminder_job is never invoked for a reminder before the
\* instant its record is scheduled at, and it is invoked with the chat and
\* the content of that record; and a job that is armed can still run, so
\* that a scheduler that runs its jobs in time fires every reminder
C20_FiresOnTimeAsCreated ==
    [][/\ (running /\ last'.op = "send_reminder_job"
                /\ Len(attempts') = Len(attempts) + 1)
          => LET sent == attempts'[Len(attempts')]
             IN  \A i \in 1..Len(state.reminders) :
                    state.reminders[i].job_id = sent.job_id
                    => /\ now >= ScheduledAt(state.reminders[i])
                       /\ sent.chat_id = state.reminders[i].chat_id
                       /\ sent.content = state.reminders[i].content
       /\ running' => \A j \in jobs' : j \in Runnable(jobs', now')]_vars

\* C18: no handler is ever suspended between its change of the document
\* and its save, so that a job, a check or another handler could run there;
\* every save that succeeds writes the whole document that is in memory,
\* and with no failed save the file holds it at every point between steps
C18_MutateAndSaveAtomic ==
    [][/\ inflight' # None => inflight'.point = "saved"
       /\ last'.op \in {"send_reminder_job", "check_and_notify"}
            => (inflight = None \/ inflight.point = "saved")
       /\ (disk' # disk /\ Readable(disk')) => disk' = Dump(state')
       /\ used'.save_failures = 0 => disk' = Dump(state')]_vars

\* a reminder fired while /feed was suspended at its reply
C18_Witness ==
    /\ inflight # None
    /\ inflight.op = "feed_command"
    /\ last.op = "send_reminder_job"
    /\ disk = Dump(state)

====
